---- MODULE Spec2Model ----
(***************************************************************************)
(* A model of src/src/sm.rs: a state container (StateMachine), the Driver  *)
(* capability with its two implementations (DriverTransitionTable, which   *)
(* looks the transition up in a HashMap, and DriverTransitionFunction,     *)
(* which calls a rule), and the default operation DriverExt::run.          *)
(*                                                                         *)
(* The caller is single-threaded.  It owns two state containers, binds     *)
(* drivers to them (a driver holds a &mut to one container and a & to the  *)
(* transition source, nothing else), and calls step or run on a bound      *)
(* driver.  A step is one atomic action; run is a loop whose iterations    *)
(* are the actions RunLoop, one call of step each.  A panic (unwrap of a   *)
(* missing table entry) ends the call in progress; the containers outlive  *)
(* it, so the model lets the caller go on (catch_unwind), which covers the *)
(* caller that stops as well.                                              *)
(***************************************************************************)
EXTENDS Naturals, Sequences, FiniteSets, TLC

VARIABLES
  tt,     \* the transition table: a function from (state, input) keys to (state, output)
  tf,     \* the transition function: a total rule over (state, input)
  sm,     \* sm[c]: the field `state` of state container c
  init,   \* init[c]: the state given to StateMachine::new for container c
  kind,   \* kind[c]: the driver variant the caller binds to container c
  bound,  \* bound[c]: a driver is currently constructed over container c
  audit,  \* whether the behaviour keeps the bookkeeping of since and call.prev
  since,  \* since[c]: the steps made on c before its current driver was
          \* constructed (0 when no driver is constructed or audit is off)
  hist,   \* hist[c]: one entry per call of Driver::step on container c, in order
  call    \* the call of DriverExt::run in progress or last finished; under
          \* audit, call.prev is the run that returned on the same container
          \* right before it

vars == <<tt, tf, sm, init, kind, bound, audit, since, hist, call>>

\* Bounds of the model.
MaxSteps == 4    \* calls of step over both containers together
MaxRunLen == 3   \* length of an input sequence given to run

Containers == {"a", "b"}
States == {"Locked", "Unlocked"}
Inputs == {"Push", "Coin"}
Keys == States \X Inputs
Variants == {"table", "function"}

\* The output slot of a step that panicked: nothing was returned.
NoOutput == "none"

\* The turnstile of the tests: its output is the state it moves to.
Turnstile ==
  ( <<"Locked", "Push">>   :> <<"Locked", "Locked">> ) @@
  ( <<"Locked", "Coin">>   :> <<"Unlocked", "Unlocked">> ) @@
  ( <<"Unlocked", "Coin">> :> <<"Unlocked", "Unlocked">> ) @@
  ( <<"Unlocked", "Push">> :> <<"Locked", "Locked">> )

Other(s) == IF s = "Locked" THEN "Unlocked" ELSE "Locked"

\* A second transducer: every input flips the state and the output is the
\* state that was left, so next state and output always differ.
Toggle == [key \in Keys |-> <<Other(key[1]), key[1]>>]

Restrict(f, D) == [key \in D |-> f[key]]

\* The rules and tables a caller supplies.  Tables may be partial: the
\* turnstile without (Locked, Coin), and a table keyed on Locked alone whose
\* entries lead to Unlocked.
Rules == {Turnstile, Toggle}
Tables ==
  { Turnstile,
    Toggle,
    Restrict(Turnstile, Keys \ {<<"Locked", "Coin">>}),
    Restrict(Toggle, {"Locked"} \X Inputs) }

\* Sequences over S of length at most n.
SeqsUpTo(S, n) == UNION {[1..m -> S] : m \in 0..n}

\* HashMap::remove in place of get: the entry is taken out of the map.
Mut_HashMap_Remove(map, key) ==
  IF key \in DOMAIN map
  THEN [map |-> [x \in DOMAIN map \ {key} |-> map[x]], some |-> TRUE, val |-> map[key]]
  ELSE [map |-> map, some |-> FALSE, val |-> <<>>]

\* HashMap::get: the value stored under the key, if any; the map is left as it was.
HashMap_get(map, key) ==
  IF key \in DOMAIN map
  THEN [map |-> map, some |-> TRUE, val |-> map[key]]
  ELSE [map |-> map, some |-> FALSE, val |-> <<>>]

\* A step that builds the lookup key the wrong way round.
Mut_TableStep_KeySwapped(t, s, input) ==
  LET got == HashMap_get(t, <<input, s>>)
  IN  IF got.some
      THEN [panic |-> FALSE, state |-> got.val[1], output |-> got.val[2], tt |-> got.map]
      ELSE [panic |-> TRUE, state |-> s, output |-> NoOutput, tt |-> got.map]

\* A step that treats a missing entry as a self-loop (unwrap_or).
Mut_TableStep_SelfLoop(t, s, input) ==
  LET got == HashMap_get(t, <<s, input>>)
  IN  IF got.some
      THEN [panic |-> FALSE, state |-> got.val[1], output |-> got.val[2], tt |-> got.map]
      ELSE [panic |-> FALSE, state |-> s, output |-> s, tt |-> got.map]

\* A step that assigns sm.state before it unwraps, storing the default state
\* when the entry is missing.
Mut_TableStep_WritesFirst(t, s, input) ==
  LET got == HashMap_get(t, <<s, input>>)
  IN  IF got.some
      THEN [panic |-> FALSE, state |-> got.val[1], output |-> got.val[2], tt |-> got.map]
      ELSE [panic |-> TRUE, state |-> "Locked", output |-> NoOutput, tt |-> got.map]

\* A step that takes the pair out of the table the wrong way round.
Mut_TableStep_Swapped(t, s, input) ==
  LET got == HashMap_get(t, <<s, input>>)
  IN  IF got.some
      THEN [panic |-> FALSE, state |-> got.val[2], output |-> got.val[1], tt |-> got.map]
      ELSE [panic |-> TRUE, state |-> s, output |-> NoOutput, tt |-> got.map]

\* DriverTransitionTable::step on table t with the container holding s.
\* unwrap panics on a missing entry, before the assignment to sm.state.
DriverTransitionTable_step(t, s, input) ==
  LET got == HashMap_get(t, <<s, input>>)
  IN  IF got.some
      THEN [panic |-> FALSE, state |-> got.val[1], output |-> got.val[2], tt |-> got.map]
      ELSE [panic |-> TRUE, state |-> s, output |-> NoOutput, tt |-> got.map]

\* A step that returns the rule's next state as its output.
Mut_FunctionStep_ReturnsState(f, s, input) ==
  LET res == f[<<s, input>>]
  IN  [panic |-> FALSE, state |-> res[1], output |-> res[1], tt |-> tt]

\* A step that forgets the assignment to sm.state.
Mut_FunctionStep_NoWrite(f, s, input) ==
  LET res == f[<<s, input>>]
  IN  [panic |-> FALSE, state |-> s, output |-> res[2], tt |-> tt]

\* DriverTransitionFunction::step with rule f and the container holding s.
DriverTransitionFunction_step(f, s, input) ==
  LET res == f[<<s, input>>]
  IN  [panic |-> FALSE, state |-> res[1], output |-> res[2], tt |-> tt]

\* Driver::step, dispatched on the driver variant, with the container holding s.
Driver_step_of(variant, s, input) ==
  IF variant = "table"
  THEN DriverTransitionTable_step(tt, s, input)
  ELSE DriverTransitionFunction_step(tf, s, input)

\* Driver::step of the driver bound to container c.
Driver_step(c, input) == Driver_step_of(kind[c], sm[c], input)

\* What a call of step leaves behind: the container's state, the table, and
\* the record of the call.
Entry(input, r) ==
  [input |-> input, panic |-> r.panic, output |-> r.output, state |-> r.state]

\* A step that keeps the current state in one place shared by all containers.
Mut_Stepped_Shared(c, input, r) ==
  /\ sm' = [d \in Containers |-> r.state]
  /\ tt' = r.tt
  /\ hist' = [hist EXCEPT ![c] = Append(@, Entry(input, r))]

Stepped(c, input, r) ==
  /\ sm' = [sm EXCEPT ![c] = r.state]
  /\ tt' = r.tt
  /\ hist' = [hist EXCEPT ![c] = Append(@, Entry(input, r))]

Steps == Len(hist["a"]) + Len(hist["b"])

\* No call of run has been made since the last call of step.
NoPrev == [some |-> FALSE, inputs |-> <<>>, outputs |-> <<>>, pre |-> "none", from |-> 0]

NoCall ==
  [status |-> "idle", c |-> "none", inputs |-> <<>>, k |-> 0, outputs |-> <<>>,
   pre |-> "none", from |-> 0, src |-> <<>>, prev |-> NoPrev]

\* StateMachine::new for both containers; the caller's table and rule.
Init ==
  /\ tt \in Tables
  /\ tf \in Rules
  /\ init \in [Containers -> States]
  /\ sm = init
  /\ kind \in [Containers -> Variants]
  /\ bound = [c \in Containers |-> FALSE]
  /\ audit = FALSE
  /\ since = [c \in Containers |-> 0]
  /\ hist = [c \in Containers |-> <<>>]
  /\ call = NoCall

\* A constructor that re-initialises the state machine it is given.
Mut_New_Resets(c) ==
  /\ call.status # "running"
  /\ ~bound[c]
  /\ bound' = [bound EXCEPT ![c] = TRUE]
  /\ since' = [since EXCEPT ![c] = IF audit THEN Len(hist[c]) ELSE 0]
  /\ sm' = [sm EXCEPT ![c] = init[c]]
  /\ UNCHANGED <<tt, tf, init, kind, audit, hist, call>>

\* DriverTransitionTable::new / DriverTransitionFunction::new: stores the two
\* references.  The &mut borrow allows one driver per container at a time.
New(c) ==
  /\ call.status # "running"
  /\ ~bound[c]
  /\ bound' = [bound EXCEPT ![c] = TRUE]
  /\ since' = [since EXCEPT ![c] = IF audit THEN Len(hist[c]) ELSE 0]
  /\ UNCHANGED <<tt, tf, sm, init, kind, audit, hist, call>>

\* The driver goes out of scope.
Drop(c) ==
  /\ call.status # "running"
  /\ bound[c]
  /\ bound' = [bound EXCEPT ![c] = FALSE]
  /\ since' = [since EXCEPT ![c] = 0]
  /\ UNCHANGED <<tt, tf, sm, init, kind, audit, hist, call>>

\* The caller calls driver.step(input).
Step(c, input) ==
  /\ call.status # "running"
  /\ bound[c]
  /\ Steps < MaxSteps
  /\ Stepped(c, input, Driver_step(c, input))
  /\ call' = NoCall
  /\ UNCHANGED <<tf, init, kind, bound, audit, since>>

\* An iterator that is never advanced: it yields the first input again.
Mut_Iterator_Stuck(inputs, k) == inputs[1]

\* An iterator that walks the inputs from the back.
Mut_Iterator_Reversed(inputs, k) == inputs[Len(inputs) - k]

\* The iterator of run's for loop: the item it yields after k items.
Iterator_next(inputs, k) == inputs[k + 1]

\* An output vector that starts with a placeholder element.
Mut_Vec_Seeded == <<NoOutput>>

\* Vec::new.
Vec_new == <<>>

\* A push that inserts at the front.
Mut_Vec_PushFront(outputs, output) == <<output>> \o outputs

\* Vec::push.
Vec_push(outputs, output) == Append(outputs, output)

\* A loop that swallows the panic and goes on with the next input.
Mut_Run_SkipsFault(cl) == [cl EXCEPT !.k = @ + 1]

\* A panic in step unwinds through run: the local outputs is dropped and
\* nothing is returned to the caller.
Run_unwind(cl) == [cl EXCEPT !.status = "panicked", !.outputs = <<>>]

\* The caller calls driver.run(inputs): outputs = Vec::new().
RunCall(c, inputs) ==
  /\ call.status # "running"
  /\ bound[c]
  /\ Steps + Len(inputs) <= MaxSteps
  /\ call' = [status |-> "running", c |-> c, inputs |-> inputs, k |-> 0,
              outputs |-> Vec_new, pre |-> sm[c], from |-> Len(hist[c]),
              src |-> <<tt, tf>>,
              prev |-> IF audit /\ call.status = "returned" /\ call.c = c
                       THEN [some |-> TRUE, inputs |-> call.inputs,
                             outputs |-> call.outputs, pre |-> call.pre,
                             from |-> call.from]
                       ELSE NoPrev]
  /\ UNCHANGED <<tt, tf, sm, init, kind, bound, audit, since, hist>>

\* A loop that takes Unlocked for a terminal state and breaks out when the
\* container holds it.
Mut_RunLoop_BreaksAtUnlocked ==
  /\ call.status = "running"
  /\ call.k < Len(call.inputs)
  /\ IF sm[call.c] = "Unlocked"
     THEN /\ call' = [call EXCEPT !.status = "returned"]
          /\ UNCHANGED <<tt, sm, hist>>
     ELSE LET input == Iterator_next(call.inputs, call.k)
              r == Driver_step(call.c, input)
          IN  /\ Stepped(call.c, input, r)
              /\ call' = IF r.panic
                         THEN Run_unwind(call)
                         ELSE [call EXCEPT !.k = @ + 1,
                                           !.outputs = Vec_push(@, r.output)]
  /\ UNCHANGED <<tf, init, kind, bound, audit, since>>

\* One iteration of the loop: outputs.push(self.step(input)).
RunLoop ==
  /\ call.status = "running"
  /\ call.k < Len(call.inputs)
  /\ LET input == Iterator_next(call.inputs, call.k)
         r == Driver_step(call.c, input)
     IN  /\ Stepped(call.c, input, r)
         /\ call' = IF r.panic
                    THEN Run_unwind(call)
                    ELSE [call EXCEPT !.k = @ + 1,
                                      !.outputs = Vec_push(@, r.output)]
  /\ UNCHANGED <<tf, init, kind, bound, audit, since>>

\* The iterator is exhausted: run returns outputs.
RunReturn ==
  /\ call.status = "running"
  /\ call.k >= Len(call.inputs)
  /\ call' = [call EXCEPT !.status = "returned"]
  /\ UNCHANGED <<tt, tf, sm, init, kind, bound, audit, since, hist>>

Next ==
  \/ \E c \in Containers : New(c)
  \/ \E c \in Containers : Drop(c)
  \/ \E c \in Containers, input \in Inputs : Step(c, input)
  \/ \E c \in Containers, inputs \in SeqsUpTo(Inputs, MaxRunLen) : RunCall(c, inputs)
  \/ RunLoop
  \/ RunReturn

Spec == Init /\ [][Next]_vars

\* The same program with the bookkeeping kept: container a is driven through
\* the table, container b through the rule.  The properties checked here are
\* about one container and its drivers, so the two containers start in the
\* same state and the rule is one that encodes the table.
InitAudit ==
  /\ tt \in Tables
  /\ tf \in {f \in Rules : \A key \in DOMAIN tt : f[key] = tt[key]}
  /\ init \in {f \in [Containers -> States] : f["a"] = f["b"]}
  /\ sm = init
  /\ kind = [c \in Containers |-> IF c = "a" THEN "table" ELSE "function"]
  /\ bound = [c \in Containers |-> FALSE]
  /\ audit = TRUE
  /\ since = [c \in Containers |-> 0]
  /\ hist = [c \in Containers |-> <<>>]
  /\ call = NoCall

SpecAudit == InitAudit /\ [][Next]_vars

\* run is synchronous code: once called, its loop goes on and it returns.
\* The caller may stop calling at any time.
\* Container a is driven through the table, container b through the rule.
InitPair == Init /\ kind["a"] = "table" /\ kind["b"] = "function"

FairSpec ==
  InitPair /\ [][Next]_vars /\ WF_vars(RunLoop) /\ WF_vars(RunReturn)

----------------------------------------------------------------------------
(* Definitions the properties share. *)

\* The state container c held before its n-th call of step.
Pre(c, n) == IF n = 1 THEN init[c] ELSE hist[c][n - 1].state

\* The calls of step on container c that this transition adds (none or one).
StepTaken(c) == Len(hist'[c]) = Len(hist[c]) + 1

\* Calling step on the inputs one after another from state s with a driver of
\* the given variant, collecting the outputs, up to the first panic.
RECURSIVE StepEach(_, _, _)
StepEach(variant, s, inputs) ==
  IF inputs = <<>>
  THEN [panic |-> FALSE, state |-> s, outputs |-> <<>>]
  ELSE LET r == Driver_step_of(variant, s, Head(inputs))
       IN  IF r.panic
           THEN [panic |-> TRUE, state |-> s, outputs |-> <<>>]
           ELSE LET rest == StepEach(variant, r.state, Tail(inputs))
                IN  [panic |-> rest.panic, state |-> rest.state,
                     outputs |-> <<r.output>> \o rest.outputs]

\* The rule encodes exactly the table's mapping.
Agrees == \A key \in DOMAIN tt : tf[key] = tt[key]

InputsOf(h) == [n \in 1..Len(h) |-> h[n].input]
NoPanicUpTo(h, n) == \A m \in 1..n : ~h[m].panic
Min(x, y) == IF x <= y THEN x ELSE y

----------------------------------------------------------------------------
(* C1: a successful step applies exactly the transition its source          *)
(* resolves: from state s with input i, the table-based driver returns the  *)
(* output of tt[s, i] and leaves the container at its next state, and the   *)
(* function-based driver does the same with tf[s, i].                       *)
C1_StepAppliesResolvedTransition ==
  [][\A c \in Containers :
       StepTaken(c) =>
         LET e == hist'[c][Len(hist'[c])]
             key == <<sm[c], e.input>>
         IN  ~e.panic =>
               /\ kind[c] = "table" =>
                    /\ key \in DOMAIN tt
                    /\ e.output = tt[key][2]
                    /\ sm'[c] = tt[key][1]
               /\ kind[c] = "function" =>
                    /\ e.output = tf[key][2]
                    /\ sm'[c] = tf[key][1]]_vars

\* Both variants have made a successful step whose output differs from the
\* state it led to.
C1_Witness ==
  \E c, d \in Containers :
    /\ kind[c] = "table" /\ kind[d] = "function"
    /\ \E n \in 1..Len(hist[c]) :
         ~hist[c][n].panic /\ hist[c][n].output # hist[c][n].state
    /\ \E n \in 1..Len(hist[d]) :
         ~hist[d][n].panic /\ hist[d][n].output # hist[d][n].state

(* C2: when the rule agrees with the table on every key of the table, a     *)
(* table-driven and a function-driven container started in the same state   *)
(* and stepped with the same inputs give the same output and hold the same  *)
(* state after every step, as long as the table-driven steps hit keys.      *)
C2_TableFunctionEquivalence ==
  Agrees =>
    \A c, d \in Containers :
      (kind[c] = "table" /\ kind[d] = "function" /\ init[c] = init[d]) =>
        /\ \A n \in 1..Min(Len(hist[c]), Len(hist[d])) :
             ( /\ SubSeq(InputsOf(hist[c]), 1, n) = SubSeq(InputsOf(hist[d]), 1, n)
               /\ NoPanicUpTo(hist[c], n) ) =>
             /\ ~hist[d][n].panic
             /\ hist[c][n].output = hist[d][n].output
             /\ hist[c][n].state = hist[d][n].state
        /\ ( /\ InputsOf(hist[c]) = InputsOf(hist[d])
             /\ NoPanicUpTo(hist[c], Len(hist[c])) ) => sm[c] = sm[d]

\* Two steps each with the same inputs, all hitting keys, and the state moved.
C2_Witness ==
  /\ Agrees
  /\ kind["a"] = "table" /\ kind["b"] = "function" /\ init["a"] = init["b"]
  /\ Len(hist["a"]) = 2 /\ InputsOf(hist["a"]) = InputsOf(hist["b"])
  /\ NoPanicUpTo(hist["a"], 2)
  /\ hist["a"][1].state # init["a"]
  /\ hist["a"][2].output # hist["a"][2].state

(* C3: a run that does not fault returns one output per input, in input     *)
(* order, output k being that of step on input k from the state the first   *)
(* k-1 steps produced; the container ends in the state that stepping the    *)
(* inputs one after another reaches, and the steps made are exactly the     *)
(* inputs, in order.  It holds after every iteration of the loop too.       *)
C3_RunPreservesOrder ==
  call.status \in {"running", "returned"} =>
    LET c == call.c
        done == SubSeq(call.inputs, 1, call.k)
        each == StepEach(kind[c], call.pre, done)
    IN  /\ ~each.panic
        /\ call.outputs = each.outputs
        /\ Len(call.outputs) = call.k
        /\ sm[c] = each.state
        /\ Len(hist[c]) = call.from + call.k
        /\ \A j \in 1..call.k :
             /\ hist[c][call.from + j].input = call.inputs[j]
             /\ hist[c][call.from + j].output = call.outputs[j]
             /\ Pre(c, call.from + j) =
                  StepEach(kind[c], call.pre, SubSeq(call.inputs, 1, j - 1)).state
        /\ call.status = "returned" => call.k = Len(call.inputs)

\* A run of three inputs has returned outputs that are not all the same.
C3_Witness ==
  /\ call.status = "returned"
  /\ Len(call.inputs) = 3
  /\ call.inputs[1] # call.inputs[3]
  /\ call.outputs[1] # call.outputs[2]
  /\ sm[call.c] # call.pre

(* C4: run over an empty input sequence returns an empty output sequence,   *)
(* performs no step and leaves the container's state, the table and the     *)
(* rule unchanged, whatever the current state.                              *)
C4_EmptyRunIsIdentity ==
  (call.status \in {"running", "returned"} /\ call.inputs = <<>>) =>
    /\ call.outputs = <<>>
    /\ sm[call.c] = call.pre
    /\ Len(hist[call.c]) = call.from
    /\ <<tt, tf>> = call.src

\* An empty run has returned on a container that steps had moved before.
C4_Witness ==
  /\ call.status = "returned"
  /\ call.inputs = <<>>
  /\ call.from > 0
  /\ sm[call.c] # init[call.c]

(* C5: the turnstile from Locked: step(Coin) returns Unlocked and leaves    *)
(* Unlocked, then step(Push) returns Locked and leaves Locked, with the     *)
(* table-based driver over the turnstile table and with the function-based  *)
(* driver over the turnstile rule alike.                                    *)
C5_TurnstileScenario ==
  \A c \in Containers :
    ( /\ init[c] = "Locked"
      /\ (IF kind[c] = "table" THEN tt ELSE tf) = Turnstile ) =>
      /\ (Len(hist[c]) >= 1 /\ hist[c][1].input = "Coin") =>
           /\ ~hist[c][1].panic
           /\ hist[c][1].output = "Unlocked"
           /\ hist[c][1].state = "Unlocked"
           /\ Len(hist[c]) = 1 => sm[c] = "Unlocked"
           /\ (Len(hist[c]) >= 2 /\ hist[c][2].input = "Push") =>
                /\ ~hist[c][2].panic
                /\ hist[c][2].output = "Locked"
                /\ hist[c][2].state = "Locked"
                /\ Len(hist[c]) = 2 => sm[c] = "Locked"

\* Both variants have been through Coin, Push from Locked.
C5_Witness ==
  /\ tt = Turnstile /\ tf = Turnstile
  /\ kind["a"] = "table" /\ kind["b"] = "function"
  /\ \A c \in Containers :
       init[c] = "Locked" /\ InputsOf(hist[c]) = <<"Coin", "Push">>

(* C6: a step of the table-based driver whose (state, input) pair has no    *)
(* entry in the table panics: it returns no output, it is not reported as a *)
(* successful (default or self-loop) transition, and a run in progress      *)
(* ends panicked.  A table lacking (Locked, Coin) makes step(Coin) from     *)
(* Locked fail.                                                             *)
C6_MissingTransitionFaults ==
  [][\A c \in Containers :
       (StepTaken(c) /\ kind[c] = "table") =>
         LET e == hist'[c][Len(hist'[c])]
         IN  <<sm[c], e.input>> \notin DOMAIN tt =>
               /\ e.panic
               /\ e.output = NoOutput
               /\ call.status = "running" =>
                    (call'.status = "panicked" /\ call'.outputs = <<>>)]_vars

\* step(Coin) from Locked has panicked on a table without (Locked, Coin).
C6_Witness ==
  /\ <<"Locked", "Coin">> \notin DOMAIN tt
  /\ \E c \in Containers :
       /\ kind[c] = "table"
       /\ \E n \in 1..Len(hist[c]) :
            /\ Pre(c, n) = "Locked"
            /\ hist[c][n].input = "Coin"
            /\ hist[c][n].panic

\* Two lookups of one key by the table-based driver gave the same result.
SameKeySameResult ==
  \A c, d \in Containers :
    (kind[c] = "table" /\ kind[d] = "table") =>
      \A n \in 1..Len(hist[c]), m \in 1..Len(hist[d]) :
        (Pre(c, n) = Pre(d, m) /\ hist[c][n].input = hist[d][m].input) =>
          /\ hist[c][n].panic = hist[d][m].panic
          /\ hist[c][n].output = hist[d][m].output
          /\ hist[c][n].state = hist[d][m].state

(* C7: no step and no run, successful or faulting, by either driver changes *)
(* the transition table (its keys and values) or the rule, and so repeated  *)
(* lookups of one (state, input) key yield the same (next state, output).   *)
C7_SourceNeverMutated ==
  /\ [][tt' = tt /\ tf' = tf]_vars
  /\ []SameKeySameResult

\* The table-based driver looked one key up twice, successfully, and a step
\* has faulted.
C7_Witness ==
  \E c \in Containers :
    /\ kind[c] = "table"
    /\ \E n, m \in 1..Len(hist[c]) :
         /\ n < m
         /\ Pre(c, n) = Pre(c, m)
         /\ hist[c][n].input = hist[c][m].input
         /\ ~hist[c][n].panic
    /\ \E n \in 1..Len(hist[c]) : hist[c][n].panic

(* C8: a container's state changes only in a call of step on it, and then   *)
(* in one move from the pre-step state to the next state the source         *)
(* resolves; a step that faults on a missing table entry leaves the state   *)
(* equal to its pre-step value.                                             *)
C8_StepIsAtomic ==
  [][\A c \in Containers :
       IF StepTaken(c)
       THEN LET e == hist'[c][Len(hist'[c])]
                key == <<sm[c], e.input>>
            IN  IF e.panic
                THEN sm'[c] = sm[c]
                ELSE sm'[c] = (IF kind[c] = "table" THEN tt[key][1] ELSE tf[key][1])
       ELSE sm'[c] = sm[c] /\ hist'[c] = hist[c]]_vars

\* A step has faulted on a container that earlier steps had moved away from
\* its initial state, and the container still holds the pre-step state.
C8_Witness ==
  \E c \in Containers :
    /\ Len(hist[c]) >= 2
    /\ hist[c][Len(hist[c])].panic
    /\ Pre(c, Len(hist[c])) # init[c]
    /\ sm[c] = Pre(c, Len(hist[c]))

\* A step made inside the call of run on record has panicked.
RunFaulted ==
  /\ call.status # "idle"
  /\ Len(hist[call.c]) > call.from
  /\ hist[call.c][Len(hist[call.c])].panic

(* C9: when a step inside run faults, run halts there: the steps before it  *)
(* stay applied (the container holds the state they reached), the faulting  *)
(* input is the last one stepped, and no output sequence is returned.       *)
(* call.k counts the inputs stepped before the faulting one.                *)
C9_RunHaltsAtFirstFault ==
  (RunFaulted \/ call.status = "panicked") =>
    LET c == call.c
        each == StepEach(kind[c], call.pre, SubSeq(call.inputs, 1, call.k))
    IN  /\ call.status = "panicked"
        /\ call.outputs = <<>>
        /\ kind[c] = "table"
        /\ call.k < Len(call.inputs)
        /\ ~each.panic
        /\ sm[c] = each.state
        /\ <<sm[c], call.inputs[call.k + 1]>> \notin DOMAIN tt
        /\ Len(hist[c]) = call.from + call.k + 1
        /\ \A j \in 1..(call.k + 1) :
             /\ hist[c][call.from + j].input = call.inputs[j]
             /\ hist[c][call.from + j].panic = (j = call.k + 1)

\* A run of three inputs faulted at its second input, after its first input
\* had changed the state.
C9_Witness ==
  /\ call.status = "panicked"
  /\ call.k = 1
  /\ Len(call.inputs) = 3
  /\ sm[call.c] # call.pre

\* The call of run on record is over: it returned or it panicked.
RunOver == call.status \in {"returned", "panicked"}

(* C10, as claimed: after any call of run the container holds the state     *)
(* after all the inputs or the pre-run state.                               *)
C10_RunAllOrNothing ==
  RunOver =>
    LET all == StepEach(kind[call.c], call.pre, call.inputs)
    IN  \/ sm[call.c] = call.pre
        \/ ~all.panic /\ sm[call.c] = all.state

(* C10, as amended: after any call of run the container holds the state     *)
(* reached by the inputs before the first one that has no table entry: the  *)
(* state after all the inputs when none faults, and otherwise the state     *)
(* after the prefix already stepped, which is not rolled back.              *)
C10_RunKeepsAppliedPrefix ==
  RunOver =>
    LET all == StepEach(kind[call.c], call.pre, call.inputs)
    IN  /\ sm[call.c] = all.state
        /\ all.panic = (call.status = "panicked")
        /\ call.k = Len(all.outputs)
        /\ all.panic => call.k < Len(call.inputs)
        /\ ~all.panic => call.k = Len(call.inputs)

\* A run has faulted after a non-empty prefix of its inputs was stepped, and
\* the container holds a state other than the pre-run state.
C10_Witness ==
  /\ call.status = "panicked"
  /\ call.k >= 1
  /\ sm[call.c] # call.pre

(* C12: constructing or dropping a driver changes neither a container's     *)
(* state nor the table nor the rule, and a driver keeps nothing between     *)
(* steps: when inputs xs were stepped through earlier drivers and ys        *)
(* through a fresh driver bound to the same container, every output and     *)
(* the final state are those of stepping xs followed by ys through one      *)
(* driver from the initial state.                                           *)
RebindIsSeamless ==
  \A c \in Containers :
    NoPanicUpTo(hist[c], Len(hist[c])) =>
      LET one == StepEach(kind[c], init[c], InputsOf(hist[c]))
      IN  /\ ~one.panic
          /\ one.outputs = [n \in 1..Len(hist[c]) |-> hist[c][n].output]
          /\ one.state = sm[c]
          /\ bound[c] =>
               sm[c] = StepEach(kind[c], Pre(c, since[c] + 1),
                                SubSeq(InputsOf(hist[c]), since[c] + 1,
                                       Len(hist[c]))).state

C12_DriverHoldsNoState ==
  /\ [][\A c \in Containers :
          bound'[c] # bound[c] => (sm' = sm /\ tt' = tt /\ tf' = tf /\ hist' = hist)]_vars
  /\ []RebindIsSeamless

\* On both containers a driver constructed after earlier steps had moved the
\* state has made a step of its own.
C12_Witness ==
  /\ audit
  /\ \A c \in Containers :
       /\ bound[c]
       /\ 0 < since[c] /\ since[c] < Len(hist[c])
       /\ NoPanicUpTo(hist[c], Len(hist[c]))
       /\ hist[c][since[c]].state # init[c]

\* The calls of step a driver of the given variant makes on the inputs, one
\* after another from state s, on a container nobody else touches.  A step
\* that panics leaves the state and the next input is stepped from it.
RECURSIVE StepTrace(_, _, _)
StepTrace(variant, s, inputs) ==
  IF inputs = <<>>
  THEN <<>>
  ELSE LET r == Driver_step_of(variant, s, Head(inputs))
       IN  <<Entry(Head(inputs), r)>> \o StepTrace(variant, r.state, Tail(inputs))

DrivenAsIfAlone ==
  \A c \in Containers :
    /\ hist[c] = StepTrace(kind[c], init[c], InputsOf(hist[c]))
    /\ sm[c] = IF hist[c] = <<>> THEN init[c] ELSE hist[c][Len(hist[c])].state

(* C13: with one table or rule shared by two containers, a step on one      *)
(* container never changes the other container's state or record, and each  *)
(* container's outputs and states are those it would have had if driven     *)
(* alone with its own inputs.                                               *)
C13_SharedSourceIsSafe ==
  /\ [][\A c, d \in Containers :
          (StepTaken(c) /\ d # c) => (sm'[d] = sm[d] /\ hist'[d] = hist[d])]_vars
  /\ []DrivenAsIfAlone

\* Two containers driven from the same table with different inputs, two
\* steps each, have ended in different states.
C13_Witness ==
  /\ kind["a"] = kind["b"]
  /\ init["a"] = init["b"]
  /\ Len(hist["a"]) = 2 /\ Len(hist["b"]) = 2
  /\ InputsOf(hist["a"]) # InputsOf(hist["b"])
  /\ sm["a"] # sm["b"]
  /\ hist["a"][1].state # hist["b"][1].state

\* The call of run on record meets a missing table entry on its way.
RunWillFault == StepEach(kind[call.c], call.pre, call.inputs).panic

\* The call of run on record has returned after one step per input.
RunReturnedAfterAll ==
  /\ call.status = "returned"
  /\ call.k = Len(call.inputs)
  /\ Len(call.outputs) = Len(call.inputs)
  /\ Len(hist[call.c]) = call.from + Len(call.inputs)

(* C14: a run over n inputs whose source is defined on every (state, input) *)
(* pair it meets terminates: it returns after exactly n steps, one per      *)
(* input, whatever states it passes through; a run never returns after      *)
(* fewer or more steps than inputs.                                         *)
C14_RunTerminates ==
  /\ [](call.status = "returned" => RunReturnedAfterAll)
  /\ [](call.status = "running" =>
          /\ call.k <= Len(call.inputs)
          /\ Len(hist[call.c]) = call.from + call.k)
  /\ (call.status = "running" /\ ~RunWillFault) ~> RunReturnedAfterAll

\* A run of three inputs has returned after passing through the state it
\* started in and through the other state.
C14_Witness ==
  /\ call.status = "returned"
  /\ Len(call.inputs) = 3
  /\ Len(hist[call.c]) = call.from + 3
  /\ \E j \in 1..2 : hist[call.c][call.from + j].state = call.pre
  /\ \E j \in 1..2 : hist[call.c][call.from + j].state # call.pre

\* Two calls of run in a row on one driver have both returned: run(xs), on
\* record as call.prev, and then run(ys), with no step and no new driver in
\* between.
TwoRunsReturned ==
  /\ call.status = "returned"
  /\ call.prev.some
  /\ bound[call.c]
  /\ since[call.c] <= call.prev.from

(* C15: run(xs) followed by run(ys) on the same driver, neither faulting,   *)
(* returns output sequences whose concatenation is what a single            *)
(* run(xs ++ ys) from the same starting state returns, and leaves the       *)
(* container in the same final state.                                       *)
C15_RunComposes ==
  TwoRunsReturned =>
    LET c == call.c
        whole == StepEach(kind[c], call.prev.pre, call.prev.inputs \o call.inputs)
    IN  /\ call.from = call.prev.from + Len(call.prev.inputs)
        /\ ~whole.panic
        /\ call.prev.outputs \o call.outputs = whole.outputs
        /\ sm[c] = whole.state

\* run over two inputs and then run over two more have returned, with
\* outputs that are not all alike.
C15_Witness ==
  /\ TwoRunsReturned
  /\ Len(call.prev.inputs) = 2 /\ Len(call.inputs) = 2
  /\ call.prev.inputs # call.inputs
  /\ call.prev.outputs[1] # call.prev.outputs[2]
  /\ call.outputs # call.prev.outputs

\* The next-state components of the table's entries.
NextStates == {tt[key][1] : key \in DOMAIN tt}

(* C16: whatever steps were made, faulting ones included, a container       *)
(* driven by the table-based driver holds its initial state or the          *)
(* next-state component of some table entry; so did it after every step.    *)
C16_TableDriverReachableStates ==
  \A c \in Containers :
    kind[c] = "table" =>
      /\ sm[c] \in {init[c]} \cup NextStates
      /\ \A n \in 1..Len(hist[c]) : hist[c][n].state \in {init[c]} \cup NextStates

\* A table-driven container whose initial state is no entry's next state has
\* faulted after it left that state and before.
C16_Witness ==
  \E c \in Containers :
    /\ kind[c] = "table"
    /\ init[c] \notin NextStates
    /\ sm[c] # init[c]
    /\ \E n \in 1..Len(hist[c]) : hist[c][n].panic
    /\ \E n \in 1..Len(hist[c]) : ~hist[c][n].panic

\* The states the table has keys for.
KeyedStates == {key[1] : key \in DOMAIN tt}

\* The table has an entry for every pair of a keyed state and an input.
TotalOverKeys == KeyedStates \X Inputs \subseteq DOMAIN tt

\* The table is total over its keyed states and every entry leads to one.
ClosedTotal == TotalOverKeys /\ NextStates \subseteq KeyedStates

(* C17: with a table that has an entry for every pair of a keyed state and  *)
(* an input and whose entries all lead to keyed states, a table-driven      *)
(* container started in a keyed state never meets the missing-transition    *)
(* fault, in step or in run.  Totality over the keys alone does not give    *)
(* this: a fault then happens exactly in a state outside the keyed states   *)
(* that some entry led to.                                                  *)
C17_ClosedTotalNeverFaults ==
  \A c \in Containers :
    (kind[c] = "table" /\ TotalOverKeys /\ init[c] \in KeyedStates) =>
      /\ ClosedTotal =>
           /\ \A n \in 1..Len(hist[c]) : ~hist[c][n].panic
           /\ call.c = c => call.status # "panicked"
      /\ \A n \in 1..Len(hist[c]) :
           hist[c][n].panic =>
             /\ Pre(c, n) \notin KeyedStates
             /\ Pre(c, n) \in NextStates

\* A closed total table whose outputs differ from its next states has been
\* stepped and run through both states without a fault.
C17_Witness ==
  \E c \in Containers :
    /\ kind[c] = "table"
    /\ ClosedTotal
    /\ tt # Turnstile
    /\ Len(hist[c]) = 4
    /\ call.status = "returned" /\ call.c = c /\ Len(call.inputs) = 2
    /\ call.from = 2

\* The converse case of C17: a table total over its keys, a container started
\* in a keyed state, and a step that faulted all the same.
C17_ConverseCase ==
  \E c \in Containers :
    /\ kind[c] = "table"
    /\ TotalOverKeys /\ ~ClosedTotal
    /\ init[c] \in KeyedStates
    /\ \E n \in 1..Len(hist[c]) : hist[c][n].panic

====
